---------------------------- MODULE Spec2Model ----------------------------
(***************************************************************************)
(* Low-energy voltage monitor (le_voltage_monitor.c) and the Bluetooth     *)
(* event handler that drives it (app.c).                                   *)
(*                                                                         *)
(* The application thread runs sl_bt_on_event one statement at a time      *)
(* (variable pc); the peripherals (LETIMER -> PRS -> IADC -> LDMA) and the *)
(* sleeptimer run on their own; LDMA_IRQHandler preempts the application   *)
(* thread between any two statements and runs to completion.  The model is *)
(* untimed: peripheral events and thread statements interleave freely (the *)
(* timer keeps running while the core is halted, init.debugRun = true).    *)
(***************************************************************************)
EXTENDS Integers, Sequences, FiniteSets, TLC

(***************************************************************************)
(* Bounds of the model.  NUM_OF_SAMPLES is 128 in le_voltage_monitor.h:54; *)
(* the model keeps the name and scales the buffer down.                    *)
(***************************************************************************)
NUM_OF_SAMPLES == 2

FifoDepth == 1

MaxPwrTimers == 1

\* Raw codes the converter delivers in the pipeline specification.
AdcCodes == {2048, 4095}

\* Raw codes the buffers of the averaging specification are drawn from.
RawSamples == {0, 1, 2, 1240, 2047, 2048, 4094, 4095}

(***************************************************************************)
(* Program constants.                                                      *)
(***************************************************************************)
FULL_SCALE_MV == 3300

MAX_RAW_CODE == 4095

LE_MONITOR_SIGNAL == 1

UINT16 == 65536

\* NUM_OF_SAMPLES as le_voltage_monitor.h defines it.
NUM_OF_SAMPLES_HEADER == 128

\* Truncation to uint32_t, x modulo 2^32, written with 16-bit halves.
Uint32_Narrow(x) == x % UINT16

Uint32(x) == (x % UINT16) + UINT16 * ((x \div UINT16) % UINT16)

VARIABLES
    startedSampling,    \* static bool startedSampling
    samplingBuffer,     \* static uint32_t samplingBuffer[NUM_OF_SAMPLES]
    descriptorXferCnt,  \* descriptor.xfer.xferCnt (transfers minus one)
    letimerEnabled,     \* LETIMER0 running
    iadcSingleEn,       \* IADC0 single queue started
    fifo,               \* IADC0 single FIFO
    ldmaCh,             \* LDMA channel 0: "disabled", "xfer", "linked"
    xferLeft,           \* unit transfers left in the loaded descriptor
    xferDone,           \* words moved since LDMA_StartTransfer
    overrun,            \* a word was written outside samplingBuffer
    ldmaIF,             \* LDMA done interrupt pending
    powerPin,           \* SENSOR_POWER_PORT/PIN output level
    pwrTimer,           \* one-shot sleeptimers pending
    extSignals,         \* signal bits raised and not yet delivered
    connected,          \* a connection is open
    evt,                \* event being handled by sl_bt_on_event
    pc,                 \* position of the application thread
    volt_buf,           \* data_mV of the last notification
    sessSignals,        \* history: signals emitted since the session began
    sessStopped,        \* history: stop() ended the current session
    startCalled,        \* history: start_next() was called since boot
    sensorRet,          \* value start_Sensor_power_timer last returned
    appStopped          \* history: the application called stop() and no
                        \* client has enabled notifications since

vars == <<startedSampling, samplingBuffer, descriptorXferCnt, letimerEnabled,
          iadcSingleEn, fifo, ldmaCh, xferLeft, xferDone, overrun, ldmaIF,
          powerPin, pwrTimer, extSignals, connected, evt, pc, volt_buf,
          sessSignals, sessStopped, startCalled, sensorRet, appStopped>>

\* The peripherals and outputs start_next() drives.
hwVars == <<letimerEnabled, iadcSingleEn, fifo, ldmaCh, xferLeft, xferDone,
            overrun, ldmaIF, powerPin, pwrTimer, samplingBuffer>>

BufIdx == 0 .. (NUM_OF_SAMPLES - 1)

Min(a, b) == IF a < b THEN a ELSE b

(***************************************************************************)
(* Average computer.                                                       *)
(***************************************************************************)
convert_to_mv_Rounding(raw) ==
    Uint32(raw * FULL_SCALE_MV + (MAX_RAW_CODE \div 2)) \div MAX_RAW_CODE

\* uint32_t arithmetic: raw * 3300 / 0xFFF
convert_to_mv(raw) == Uint32(raw * FULL_SCALE_MV) \div MAX_RAW_CODE

\* The loop of le_voltage_monitor_get_average_mv: avg after i iterations.
RECURSIVE AvgLoop(_, _)
AvgLoop(buf, i) ==
    IF i = 0 THEN 0
    ELSE Uint32(AvgLoop(buf, i - 1) + convert_to_mv(buf[i - 1]))

le_voltage_monitor_get_average_mv_SkipFirst(buf) ==
    (AvgLoop(buf, NUM_OF_SAMPLES - 1) \div NUM_OF_SAMPLES) % UINT16

\* uint16_t return value of avg / NUM_OF_SAMPLES
le_voltage_monitor_get_average_mv(buf) ==
    (AvgLoop(buf, NUM_OF_SAMPLES) \div NUM_OF_SAMPLES) % UINT16

(***************************************************************************)
(* Initial state: static initialisers, peripherals in reset.               *)
(***************************************************************************)
Init ==
    /\ startedSampling = FALSE
    /\ samplingBuffer = [i \in BufIdx |-> 0]
    /\ descriptorXferCnt = NUM_OF_SAMPLES - 1
    /\ letimerEnabled = FALSE
    /\ iadcSingleEn = FALSE
    /\ fifo = <<>>
    /\ ldmaCh = "disabled"
    /\ xferLeft = 0
    /\ xferDone = 0
    /\ overrun = FALSE
    /\ ldmaIF = FALSE
    /\ powerPin = FALSE
    /\ pwrTimer = 0
    /\ extSignals = 0
    /\ connected = FALSE
    /\ evt = "none"
    /\ pc = "boot"
    /\ volt_buf = 0
    /\ sessSignals = 0
    /\ sessStopped = FALSE
    /\ startCalled = FALSE
    /\ sensorRet = 0
    /\ appStopped = FALSE


(***************************************************************************)
(* le_voltage_monitor_init(), called by app_init() before any event.       *)
(* init_letimer leaves the timer disabled, init_iadc resets the converter, *)
(* init_ldma sets descriptor.xfer.xferCnt and enables the interrupt,       *)
(* init_power_gpio drives the power output low.                            *)
(***************************************************************************)
\* init_ldma: descriptor.xfer.xferCnt = NUM_OF_SAMPLES
init_ldma_xferCnt == NUM_OF_SAMPLES

\* init_letimer: init.enable = false
init_letimer_enable_True == TRUE

init_letimer_enable == FALSE

\* One call of le_voltage_monitor_init(); app_init() makes one, and a
\* further call before the event loop starts is admitted.
le_voltage_monitor_init ==
    /\ pc \in {"boot", "booted"}
    /\ letimerEnabled' = init_letimer_enable
    /\ iadcSingleEn' = FALSE
    /\ fifo' = <<>>
    /\ ldmaCh' = "disabled"
    /\ ldmaIF' = FALSE
    /\ descriptorXferCnt' = init_ldma_xferCnt
    /\ powerPin' = FALSE
    /\ pc' = "booted"
    /\ UNCHANGED <<startedSampling, samplingBuffer, xferLeft, xferDone,
                   overrun, pwrTimer, extSignals, connected, evt, volt_buf,
                   sessSignals, sessStopped, startCalled, sensorRet, appStopped>>

\* app_init() returns and the stack starts delivering events.
app_init_return ==
    /\ pc = "booted"
    /\ pc' = "idle"
    /\ UNCHANGED <<startedSampling, samplingBuffer, descriptorXferCnt,
                   letimerEnabled, iadcSingleEn, fifo, ldmaCh, xferLeft,
                   xferDone, overrun, ldmaIF, powerPin, pwrTimer, extSignals,
                   connected, evt, volt_buf, sessSignals, sessStopped,
                   startCalled, sensorRet, appStopped>>

(***************************************************************************)
(* Peripherals.                                                            *)
(***************************************************************************)
\* A LETIMER0 underflow pulse, routed by PRS to the IADC single trigger
\* (init_letimer, init_prs, init_iadc): one conversion, whose result enters
\* the FIFO; a result arriving at a full FIFO is dropped.
LETIMER_Pulse(raw) ==
    /\ letimerEnabled
    /\ iadcSingleEn
    /\ Len(fifo) < FifoDepth
    /\ fifo' = Append(fifo, raw)
    /\ UNCHANGED <<startedSampling, samplingBuffer, descriptorXferCnt,
                   letimerEnabled, iadcSingleEn, ldmaCh, xferLeft, xferDone,
                   overrun, ldmaIF, powerPin, pwrTimer, extSignals, connected,
                   evt, pc, volt_buf, sessSignals, sessStopped, startCalled, sensorRet, appStopped>>

\* What the channel does once its descriptor is exhausted.  The descriptor
\* is LDMA_DESCRIPTOR_LINKREL_P2M_WORD(..., 1): it links to the descriptor
\* one place after the single static one, memory the program never set up,
\* so the channel either ends or goes on under an unknown descriptor.
AfterDescriptor == {"disabled", "linked"}

\* The channel moves one word from the FIFO to dstAddr (samplingBuffer,
\* dstInc one word); the word after the last buffer element lies outside
\* the array.  The last unit transfer sets the done flag (doneIfs).
LDMA_Transfer ==
    /\ ldmaCh = "xfer"
    /\ fifo # <<>>
    /\ fifo' = Tail(fifo)
    /\ IF xferDone < NUM_OF_SAMPLES
       THEN /\ samplingBuffer' = [samplingBuffer EXCEPT ![xferDone] = Head(fifo)]
            /\ UNCHANGED overrun
       ELSE /\ overrun' = TRUE
            /\ UNCHANGED samplingBuffer
    /\ xferDone' = xferDone + 1
    /\ xferLeft' = xferLeft - 1
    /\ IF xferLeft = 1
       THEN /\ ldmaIF' = TRUE
            /\ ldmaCh' \in AfterDescriptor
       ELSE UNCHANGED <<ldmaIF, ldmaCh>>
    /\ UNCHANGED <<startedSampling, descriptorXferCnt, letimerEnabled,
                   iadcSingleEn, powerPin, pwrTimer, extSignals, connected,
                   evt, pc, volt_buf, sessSignals, sessStopped, startCalled, sensorRet, appStopped>>

\* A transfer under the unknown linked descriptor: it takes a word from the
\* FIFO, writes it somewhere, and may raise the done flag and may end.
LDMA_StrayTransfer ==
    /\ ldmaCh = "linked"
    /\ fifo # <<>>
    /\ fifo' = Tail(fifo)
    /\ overrun' = TRUE
    /\ ldmaIF' \in {ldmaIF, TRUE}
    /\ ldmaCh' \in AfterDescriptor
    /\ UNCHANGED <<startedSampling, samplingBuffer, descriptorXferCnt,
                   letimerEnabled, iadcSingleEn, xferLeft, xferDone, powerPin,
                   pwrTimer, extSignals, connected, evt, pc, volt_buf,
                   sessSignals, sessStopped, startCalled, sensorRet, appStopped>>

\* my_timer_callback: the one-shot sleeptimer fires.
my_timer_callback ==
    /\ pwrTimer > 0
    /\ pwrTimer' = pwrTimer - 1
    /\ powerPin' = FALSE
    /\ UNCHANGED <<startedSampling, samplingBuffer, descriptorXferCnt,
                   letimerEnabled, iadcSingleEn, fifo, ldmaCh, xferLeft,
                   xferDone, overrun, ldmaIF, extSignals, connected, evt, pc,
                   volt_buf, sessSignals, sessStopped, startCalled, sensorRet, appStopped>>

\* The timer handle my_timer is a local of start_Sensor_power_timer that the
\* sleeptimer keeps a pointer to after the function returned: the handle
\* may be overwritten before it expires, and then the callback never runs.
SleeptimerHandleLost ==
    /\ pwrTimer > 0
    /\ pc \notin {"sn_timer", "sn_pin"}
    /\ pwrTimer' = pwrTimer - 1
    /\ UNCHANGED <<startedSampling, samplingBuffer, descriptorXferCnt,
                   letimerEnabled, iadcSingleEn, fifo, ldmaCh, xferLeft,
                   xferDone, overrun, ldmaIF, powerPin, extSignals, connected,
                   evt, pc, volt_buf, sessSignals, sessStopped, startCalled, sensorRet, appStopped>>

(***************************************************************************)
(* LDMA_IRQHandler: runs when the done flag is pending.                    *)
(***************************************************************************)
\* sl_bt_external_signal(signals): the bits are or-ed into the pending
\* signals, which the stack delivers in one external_signal event.
sl_bt_external_signal_Dropped(pending, signals) == pending

sl_bt_external_signal(pending, signals) ==
    IF (pending % 2) = 1 THEN pending ELSE pending + signals

LDMA_IRQHandler ==
    /\ ldmaIF
    /\ ldmaIF' = FALSE                    \* LDMA_IntClear(LDMA_IntGet())
    /\ letimerEnabled' = FALSE            \* LETIMER_Enable(LETIMER0, false)
    /\ iadcSingleEn' = FALSE              \* IADC_command(iadcCmdStopSingle)
    /\ extSignals' = sl_bt_external_signal(extSignals, LE_MONITOR_SIGNAL)
    /\ startedSampling' = FALSE
    /\ sessSignals' = Min(sessSignals + 1, 2)
    /\ UNCHANGED <<samplingBuffer, descriptorXferCnt, fifo, ldmaCh, xferLeft,
                   xferDone, overrun, powerPin, pwrTimer, connected, evt, pc,
                   volt_buf, sessStopped, startCalled, sensorRet, appStopped>>


(***************************************************************************)
(* The application thread.  It runs only while no interrupt is pending:    *)
(* the LDMA interrupt is enabled in the NVIC (init_ldma) and never masked. *)
(***************************************************************************)
ThreadRuns == ~ldmaIF

\* The guard of le_voltage_monitor_start_next: if(!startedSampling)
StartNextGuard_Always == TRUE

StartNextGuard == ~startedSampling

\* sl_status_t values sl_sleeptimer_start_timer returns to
\* start_Sensor_power_timer.
SL_STATUS == {"SL_STATUS_OK", "SL_STATUS_FAIL"}

\* le_voltage_monitor_start_next, one statement per step.
start_next_check ==
    /\ pc = "sn_check" /\ ThreadRuns
    /\ startCalled' = TRUE
    /\ IF StartNextGuard
       THEN /\ pc' = "sn_iadc"
            /\ sessSignals' = 0
            /\ sessStopped' = FALSE
       ELSE /\ pc' = "idle"
            /\ UNCHANGED <<sessSignals, sessStopped>>
    /\ UNCHANGED <<startedSampling, samplingBuffer, descriptorXferCnt,
                   letimerEnabled, iadcSingleEn, fifo, ldmaCh, xferLeft,
                   xferDone, overrun, ldmaIF, powerPin, pwrTimer, extSignals,
                   connected, evt, volt_buf, sensorRet, appStopped>>

\* IADC_command(IADC0, iadcCmdStartSingle)
start_next_iadc ==
    /\ pc = "sn_iadc" /\ ThreadRuns
    /\ iadcSingleEn' = TRUE
    /\ pc' = "sn_letimer"
    /\ UNCHANGED <<startedSampling, samplingBuffer, descriptorXferCnt,
                   letimerEnabled, fifo, ldmaCh, xferLeft, xferDone, overrun,
                   ldmaIF, powerPin, pwrTimer, extSignals, connected, evt,
                   volt_buf, sessSignals, sessStopped, startCalled, sensorRet, appStopped>>

\* LETIMER_Enable(LETIMER0, true)
start_next_letimer ==
    /\ pc = "sn_letimer" /\ ThreadRuns
    /\ letimerEnabled' = TRUE
    /\ pc' = "sn_ldma"
    /\ UNCHANGED <<startedSampling, samplingBuffer, descriptorXferCnt,
                   iadcSingleEn, fifo, ldmaCh, xferLeft, xferDone, overrun,
                   ldmaIF, powerPin, pwrTimer, extSignals, connected, evt,
                   volt_buf, sessSignals, sessStopped, startCalled, sensorRet, appStopped>>

\* LDMA_StartTransfer(LDMA_CHANNEL, &xferCfg, &descriptor): the channel
\* loads the descriptor; xferCnt holds the number of unit transfers minus one.
start_next_ldma ==
    /\ pc = "sn_ldma" /\ ThreadRuns
    /\ ldmaCh' = "xfer"
    /\ xferLeft' = descriptorXferCnt + 1
    /\ xferDone' = 0
    /\ pc' = "sn_pin"
    /\ UNCHANGED <<startedSampling, samplingBuffer, descriptorXferCnt,
                   letimerEnabled, iadcSingleEn, fifo, overrun, ldmaIF,
                   powerPin, pwrTimer, extSignals, connected, evt, volt_buf,
                   sessSignals, sessStopped, startCalled, sensorRet, appStopped>>

\* start_Sensor_power_timer: GPIO_PinOutSet
start_Sensor_power_pin ==
    /\ pc = "sn_pin" /\ ThreadRuns
    /\ powerPin' = TRUE
    /\ pc' = "sn_timer"
    /\ UNCHANGED <<startedSampling, samplingBuffer, descriptorXferCnt,
                   letimerEnabled, iadcSingleEn, fifo, ldmaCh, xferLeft,
                   xferDone, overrun, ldmaIF, pwrTimer, extSignals, connected,
                   evt, volt_buf, sessSignals, sessStopped, startCalled, sensorRet, appStopped>>

\* start_Sensor_power_timer: if(status != SL_STATUS_OK) return -1; return 1;
PowerTimerReturn(status) == IF status # "SL_STATUS_OK" THEN -1 ELSE 1

\* start_next() calls start_Sensor_power_timer() as a statement: whatever
\* it returns, the next statement is startedSampling = true.
AfterPowerTimer_Abort(ret) == IF ret = 1 THEN "sn_flag" ELSE "idle"

AfterPowerTimer(ret) == "sn_flag"

\* start_Sensor_power_timer: sl_sleeptimer_start_timer and the return.
start_Sensor_power_timer(status) ==
    /\ pc = "sn_timer" /\ ThreadRuns
    /\ IF status = "SL_STATUS_OK"
       THEN /\ pwrTimer < MaxPwrTimers
            /\ pwrTimer' = pwrTimer + 1
       ELSE UNCHANGED pwrTimer
    /\ sensorRet' = PowerTimerReturn(status)
    /\ pc' = AfterPowerTimer(PowerTimerReturn(status))
    /\ UNCHANGED <<startedSampling, samplingBuffer, descriptorXferCnt,
                   letimerEnabled, iadcSingleEn, fifo, ldmaCh, xferLeft,
                   xferDone, overrun, ldmaIF, powerPin, extSignals, connected,
                   evt, volt_buf, sessSignals, sessStopped, startCalled,
                   appStopped>>

\* startedSampling = true
start_next_flag ==
    /\ pc = "sn_flag" /\ ThreadRuns
    /\ startedSampling' = TRUE
    /\ pc' = "idle"
    /\ UNCHANGED <<samplingBuffer, descriptorXferCnt, letimerEnabled,
                   iadcSingleEn, fifo, ldmaCh, xferLeft, xferDone, overrun,
                   ldmaIF, powerPin, pwrTimer, extSignals, connected, evt,
                   volt_buf, sessSignals, sessStopped, startCalled, sensorRet, appStopped>>

\* le_voltage_monitor_stop, one statement per step.
\* The GPIO_PinOutClear at the head of stop() is commented out: the power
\* output after stop() is the output before it.
stop_power_Clear(pin) == FALSE

stop_power(pin) == pin

\* LETIMER_Enable(LETIMER0, false)
stop_letimer ==
    /\ pc = "st_letimer" /\ ThreadRuns
    /\ powerPin' = stop_power(powerPin)
    /\ letimerEnabled' = FALSE
    /\ pc' = "st_iadc"
    /\ UNCHANGED <<startedSampling, samplingBuffer, descriptorXferCnt,
                   iadcSingleEn, fifo, ldmaCh, xferLeft, xferDone, overrun,
                   ldmaIF, pwrTimer, extSignals, connected, evt,
                   volt_buf, sessSignals, sessStopped, startCalled, sensorRet, appStopped>>

\* IADC_command(IADC0, iadcCmdStopSingle)
stop_iadc ==
    /\ pc = "st_iadc" /\ ThreadRuns
    /\ iadcSingleEn' = FALSE
    /\ pc' = "st_flag"
    /\ UNCHANGED <<startedSampling, samplingBuffer, descriptorXferCnt,
                   letimerEnabled, fifo, ldmaCh, xferLeft, xferDone, overrun,
                   ldmaIF, powerPin, pwrTimer, extSignals, connected, evt,
                   volt_buf, sessSignals, sessStopped, startCalled, sensorRet, appStopped>>

\* startedSampling = false
stop_flag_value_Kept == startedSampling

stop_flag_value == FALSE

stop_flag ==
    /\ pc = "st_flag" /\ ThreadRuns
    /\ startedSampling' = stop_flag_value
    /\ sessStopped' = (sessStopped \/ startedSampling)
    /\ pc' = "st_ldma"
    /\ UNCHANGED <<samplingBuffer, descriptorXferCnt, letimerEnabled,
                   iadcSingleEn, fifo, ldmaCh, xferLeft, xferDone, overrun,
                   ldmaIF, powerPin, pwrTimer, extSignals, connected, evt,
                   volt_buf, sessSignals, startCalled, sensorRet, appStopped>>

\* LDMA_StopTransfer(LDMA_CHANNEL)
stop_ldma ==
    /\ pc = "st_ldma" /\ ThreadRuns
    /\ ldmaCh' = "disabled"
    /\ pc' = "idle"
    /\ UNCHANGED <<startedSampling, samplingBuffer, descriptorXferCnt,
                   letimerEnabled, iadcSingleEn, fifo, xferLeft, xferDone,
                   overrun, ldmaIF, powerPin, pwrTimer, extSignals, connected,
                   evt, volt_buf, sessSignals, sessStopped, startCalled, sensorRet, appStopped>>


(***************************************************************************)
(* sl_bt_on_event: the events the Bluetooth stack hands to the application *)
(* while the thread is in the event loop.                                  *)
(***************************************************************************)
Characteristics == {"gattdb_avg_voltage_data", "other"}

StatusFlags == {"gatt_server_client_config", "gatt_server_confirmation"}

ClientConfigFlags == {"gatt_disable", "gatt_notification", "gatt_indication"}

\* case sl_bt_evt_connection_opened_id
evt_connection_opened ==
    /\ pc = "idle" /\ ThreadRuns
    /\ ~connected
    /\ connected' = TRUE
    /\ evt' = "opened"
    /\ UNCHANGED <<startedSampling, samplingBuffer, descriptorXferCnt,
                   letimerEnabled, iadcSingleEn, fifo, ldmaCh, xferLeft,
                   xferDone, overrun, ldmaIF, powerPin, pwrTimer, extSignals,
                   pc, volt_buf, sessSignals, sessStopped, startCalled, sensorRet, appStopped>>

\* case sl_bt_evt_connection_closed_id: le_voltage_monitor_stop()
evt_connection_closed ==
    /\ pc = "idle" /\ ThreadRuns
    /\ connected
    /\ connected' = FALSE
    /\ evt' = "closed"
    /\ pc' = "st_letimer"
    /\ appStopped' = TRUE
    /\ UNCHANGED <<startedSampling, samplingBuffer, descriptorXferCnt,
                   letimerEnabled, iadcSingleEn, fifo, ldmaCh, xferLeft,
                   xferDone, overrun, ldmaIF, powerPin, pwrTimer, extSignals,
                   volt_buf, sessSignals, sessStopped, startCalled, sensorRet>>

\* case sl_bt_evt_gatt_server_characteristic_status_id
evt_characteristic_status(characteristic, status_flags, client_config_flags) ==
    /\ pc = "idle" /\ ThreadRuns
    /\ connected
    /\ evt' = "status"
    /\ IF /\ characteristic = "gattdb_avg_voltage_data"
          /\ status_flags = "gatt_server_client_config"
       THEN IF client_config_flags # "gatt_disable"
            THEN pc' = "sn_check" /\ appStopped' = FALSE
            ELSE pc' = "st_letimer" /\ appStopped' = TRUE
       ELSE pc' = "idle" /\ UNCHANGED appStopped
    /\ UNCHANGED <<startedSampling, samplingBuffer, descriptorXferCnt,
                   letimerEnabled, iadcSingleEn, fifo, ldmaCh, xferLeft,
                   xferDone, overrun, ldmaIF, powerPin, pwrTimer, extSignals,
                   connected, volt_buf, sessSignals, sessStopped, startCalled, sensorRet>>

\* case sl_bt_evt_system_external_signal_id: the stack delivers the raised
\* signal bits in one event; extsignals & LE_MONITOR_SIGNAL selects the
\* monitor's branch.
evt_external_signal ==
    /\ pc = "idle" /\ ThreadRuns
    /\ extSignals # 0
    /\ extSignals' = 0
    /\ evt' = "signal"
    /\ pc' = IF (extSignals % 2) = LE_MONITOR_SIGNAL THEN "sig_avg" ELSE "idle"
    /\ UNCHANGED <<startedSampling, samplingBuffer, descriptorXferCnt,
                   letimerEnabled, iadcSingleEn, fifo, ldmaCh, xferLeft,
                   xferDone, overrun, ldmaIF, powerPin, pwrTimer, connected,
                   volt_buf, sessSignals, sessStopped, startCalled, sensorRet, appStopped>>

\* le_voltage_monitor_get_average_mv only reads samplingBuffer[i]: the
\* buffer after the call.
BufferAfterAverage_Cleared(buf) == [i \in BufIdx |-> 0]

BufferAfterAverage(buf) == buf

\* data_mV = le_voltage_monitor_get_average_mv(); volt_buf; notification;
\* then le_voltage_monitor_start_next()
signal_get_average ==
    /\ pc = "sig_avg" /\ ThreadRuns
    /\ volt_buf' = le_voltage_monitor_get_average_mv(samplingBuffer)
    /\ samplingBuffer' = BufferAfterAverage(samplingBuffer)
    /\ pc' = "sn_check"
    /\ UNCHANGED <<startedSampling, descriptorXferCnt,
                   letimerEnabled, iadcSingleEn, fifo, ldmaCh, xferLeft,
                   xferDone, overrun, ldmaIF, powerPin, pwrTimer, extSignals,
                   connected, evt, sessSignals, sessStopped, startCalled, sensorRet, appStopped>>

(***************************************************************************)
(* The pipeline specification.                                             *)
(***************************************************************************)
Next ==
    \/ le_voltage_monitor_init
    \/ app_init_return
    \/ \E raw \in AdcCodes : LETIMER_Pulse(raw)
    \/ LDMA_Transfer
    \/ LDMA_StrayTransfer
    \/ my_timer_callback
    \/ SleeptimerHandleLost
    \/ LDMA_IRQHandler
    \/ start_next_check
    \/ start_next_iadc
    \/ start_next_letimer
    \/ start_next_ldma
    \/ start_Sensor_power_pin
    \/ \E status \in SL_STATUS : start_Sensor_power_timer(status)
    \/ start_next_flag
    \/ stop_letimer
    \/ stop_iadc
    \/ stop_flag
    \/ stop_ldma
    \/ evt_connection_opened
    \/ evt_connection_closed
    \/ \E c \in Characteristics, sf \in StatusFlags, ccf \in ClientConfigFlags :
           evt_characteristic_status(c, sf, ccf)
    \/ evt_external_signal
    \/ signal_get_average

Spec == Init /\ [][Next]_vars

(***************************************************************************)
(* The continuous-sampling specification: notifications, once enabled, stay *)
(* enabled and the connection stays open, so the application never calls    *)
(* stop().  The core executes the thread's next statement, the free-running *)
(* timer keeps pulsing while enabled, the channel serves a pending request, *)
(* the interrupt is taken, and the stack delivers a raised signal.          *)
(***************************************************************************)
ThreadStep ==
    \/ start_next_check
    \/ start_next_iadc
    \/ start_next_letimer
    \/ start_next_ldma
    \/ start_Sensor_power_pin
    \/ \E status \in SL_STATUS : start_Sensor_power_timer(status)
    \/ start_next_flag
    \/ signal_get_average

NextLive ==
    \/ le_voltage_monitor_init
    \/ app_init_return
    \/ \E raw \in AdcCodes : LETIMER_Pulse(raw)
    \/ LDMA_Transfer
    \/ LDMA_StrayTransfer
    \/ my_timer_callback
    \/ SleeptimerHandleLost
    \/ LDMA_IRQHandler
    \/ ThreadStep
    \/ evt_connection_opened
    \/ \E c \in Characteristics, sf \in StatusFlags,
          ccf \in ClientConfigFlags \ {"gatt_disable"} :
           evt_characteristic_status(c, sf, ccf)
    \/ evt_external_signal

Fairness ==
    /\ WF_vars(ThreadStep)
    /\ WF_vars(\E raw \in AdcCodes : LETIMER_Pulse(raw))
    /\ WF_vars(LDMA_Transfer)
    /\ WF_vars(LDMA_IRQHandler)
    /\ SF_vars(evt_external_signal)

SpecLive == Init /\ [][NextLive]_vars /\ Fairness

(***************************************************************************)
(* The averaging specification: the external-signal handler is about to    *)
(* read a buffer of any content, with the pipeline at rest.                *)
(***************************************************************************)
InitAvg ==
    /\ startedSampling = FALSE
    /\ samplingBuffer \in [BufIdx -> RawSamples]
    /\ descriptorXferCnt = init_ldma_xferCnt
    /\ letimerEnabled = FALSE
    /\ iadcSingleEn = FALSE
    /\ fifo = <<>>
    /\ ldmaCh = "disabled"
    /\ xferLeft = 0
    /\ xferDone = 0
    /\ overrun = FALSE
    /\ ldmaIF = FALSE
    /\ powerPin = FALSE
    /\ pwrTimer = 0
    /\ extSignals = 0
    /\ connected = TRUE
    /\ evt = "signal"
    /\ pc = "sig_avg"
    /\ volt_buf = 0
    /\ sessSignals = 0
    /\ sessStopped = FALSE
    /\ startCalled = TRUE
    /\ sensorRet = 1
    /\ appStopped = FALSE

NextAvg == signal_get_average

SpecAvg == InitAvg /\ [][NextAvg]_vars


(***************************************************************************)
(* Properties.                                                             *)
(***************************************************************************)
StopPcs == {"st_letimer", "st_iadc", "st_flag", "st_ldma"}

\* C1: a start_next() call that finds the session Active returns at once,
\* issuing no converter command, leaving timer, transfer engine, power
\* output and power timer as they are and the flag Active; and a call that
\* began a session leaves the flag Active, so the call after it is that one.
C1_IdempotentStart ==
    [][ /\ (pc = "sn_check" /\ startedSampling /\ pc' # pc)
            => (pc' = "idle" /\ startedSampling' /\ UNCHANGED hwVars)
        /\ (pc = "sn_flag" /\ pc' # pc) => startedSampling' ]_vars

C1_Witness ==
    /\ pc = "sn_check"
    /\ startedSampling
    /\ letimerEnabled
    /\ ldmaCh = "xfer"
    /\ evt = "status"

\* C2: once stop() has reset the flag of an Active session, the completion
\* signal is not raised until start_next() begins a new session.
C2_StopCancels == [][LDMA_IRQHandler => ~sessStopped]_vars

\* C3: the completion interrupt handler runs, and emits the signal, only
\* while the session flag is Active.
C3_NoSignalWhileIdle == [][LDMA_IRQHandler => startedSampling]_vars

\* C4: when the completion signal is emitted, exactly NUM_OF_SAMPLES words
\* have been transferred since the engine was armed.
C4_BufferSize == [][LDMA_IRQHandler => xferDone = NUM_OF_SAMPLES]_vars

\* C5: a session emits the signal at most once; and when NUM_OF_SAMPLES
\* samples of a session that was not stopped have landed in the buffer and
\* nothing is pending, the signal was emitted exactly once and the state is
\* Idle.
C5_EndToEnd ==
    /\ sessSignals <= 1
    /\ ( /\ pc = "idle"
         /\ ~sessStopped
         /\ xferDone = NUM_OF_SAMPLES
         /\ fifo = <<>>
         /\ ~ldmaIF )
       => (sessSignals = 1 /\ ~startedSampling)

\* Sum of the truncated per-sample millivolts over the first n entries, in
\* unbounded integer arithmetic.
RECURSIVE SumMv(_, _)
SumMv(buf, n) ==
    IF n = 0 THEN 0
    ELSE SumMv(buf, n - 1) + ((buf[n - 1] * 3300) \div 4095)

\* C6: get_average_mv() returns floor(sum of floor(raw * 3300 / 4095) over
\* all entries / NUM_OF_SAMPLES); a buffer of identical values v yields
\* floor(v * 3300 / 4095).
C6_AverageCorrect ==
    (pc = "sn_check") =>
        /\ volt_buf = SumMv(samplingBuffer, NUM_OF_SAMPLES) \div NUM_OF_SAMPLES
        /\ (\A i \in BufIdx : samplingBuffer[i] = samplingBuffer[0])
              => volt_buf = (samplingBuffer[0] * 3300) \div 4095

C6_Witness ==
    /\ pc = "sn_check"
    /\ samplingBuffer[0] = 1
    /\ samplingBuffer[NUM_OF_SAMPLES - 1] = 4095
    /\ volt_buf = 3300 \div NUM_OF_SAMPLES

AllMidScale == \A i \in BufIdx : samplingBuffer[i] = 2048

\* C7 as stated: with every sample at raw code 2048 the handler's
\* get_average_mv() returns 1651.
C7_MidScale1651 ==
    [][(signal_get_average /\ AllMidScale) => volt_buf' = 1651]_vars

\* C7 amended: with every sample at raw code 2048 the handler's
\* get_average_mv() returns 1650 (2048 * 3300 / 4095 = 1650.4, truncated).
C7_MidScale1650 ==
    [][(signal_get_average /\ AllMidScale) => volt_buf' = 1650]_vars

C7_Witness ==
    /\ pc = "sn_check"
    /\ evt = "signal"
    /\ AllMidScale
    /\ xferDone >= NUM_OF_SAMPLES
    /\ volt_buf = 1650

\* C8: the power output, once raised, falls again with no further call.
\* The output is lowered by my_timer_callback alone, so outside
\* start_Sensor_power_timer a high output needs a pending power timer.
C8_PowerWindow == (powerPin /\ pc # "sn_timer") => pwrTimer > 0

\* C9: no state outside stop() is Active with the timer disabled, the
\* converter stopped or the transfer engine unarmed while no completion
\* interrupt is pending: from such a state completion never happens.
C9_ActiveCompletes ==
    (startedSampling /\ pc \notin StopPcs /\ ~ldmaIF)
        => (letimerEnabled /\ iadcSingleEn /\ ldmaCh = "xfer")

\* C10: the external-signal handler calls get_average_mv() only while no
\* session is Active and the transfer engine is not writing the buffer.
C10_ReadAfterCompletion ==
    [][signal_get_average => (~startedSampling /\ ldmaCh # "xfer")]_vars

\* What initialize() leaves behind: nothing is sampling.
InitQuiet ==
    /\ ~letimerEnabled
    /\ ldmaCh = "disabled"
    /\ ~powerPin
    /\ pwrTimer = 0
    /\ ~startedSampling

\* C11: after initialize(), called once or again, the timer is disabled,
\* the transfer engine is not armed, the power output is low and the state
\* is Idle; a further call leaves the same state as the first; and until
\* start_next() is called no transfer happens and no completion interrupt
\* or signal is raised.
C11_InitQuiet ==
    /\ (pc # "boot" /\ ~startCalled) =>
           /\ InitQuiet
           /\ xferDone = 0 /\ ~overrun /\ fifo = <<>>
           /\ samplingBuffer = [i \in BufIdx |-> 0]
           /\ ~ldmaIF /\ extSignals = 0 /\ sessSignals = 0
    /\ (pc = "booted") =>
           /\ ~iadcSingleEn
           /\ descriptorXferCnt = init_ldma_xferCnt
           /\ xferLeft = 0

C11_Witness ==
    /\ ~startCalled
    /\ pc = "st_ldma"
    /\ evt = "status"
    /\ InitQuiet

\* C12: when sl_sleeptimer_start_timer fails, start_Sensor_power_timer
\* returns a value other than the success value 1, and start_next() goes
\* on as after a success: the step touches neither timer, converter nor
\* transfer engine, and the call ends by setting the state Active, with
\* the timer enabled and the engine armed when no completion came between.
C12_PowerFailureProceeds ==
    [][ /\ (pc = "sn_timer" /\ pc' # pc) =>
              /\ pc' = "sn_flag"
              /\ sensorRet' \in {-1, 1}
              /\ (sensorRet' # 1) <=> (pwrTimer' = pwrTimer)
              /\ UNCHANGED <<letimerEnabled, iadcSingleEn, ldmaCh, xferLeft,
                             startedSampling>>
        /\ (pc = "sn_flag" /\ pc' # pc /\ sensorRet # 1) =>
              /\ startedSampling'
              /\ pc' = "idle"
              /\ (sessSignals = 0) =>
                    (letimerEnabled' /\ iadcSingleEn' /\ ldmaCh' = "xfer") ]_vars

C12_Witness ==
    /\ pc = "idle"
    /\ sensorRet = -1
    /\ pwrTimer = 0
    /\ powerPin
    /\ startedSampling
    /\ letimerEnabled
    /\ ldmaCh = "xfer"

\* C13: get_average_mv() changes nothing but its caller's result: the
\* session flag, the buffer, the timer, the converter, the FIFO, the
\* transfer engine and the power output are as before the call, in state
\* Idle and in state Active; and the value returned is a function of the
\* buffer contents alone, so two calls on the same contents agree.
C13_AveragePure ==
    [][ signal_get_average =>
          /\ UNCHANGED <<startedSampling, samplingBuffer, letimerEnabled,
                         iadcSingleEn, fifo, ldmaCh, xferLeft, xferDone,
                         overrun, ldmaIF, powerPin, pwrTimer, extSignals,
                         descriptorXferCnt>>
          /\ volt_buf' =
                SumMv(samplingBuffer, NUM_OF_SAMPLES) \div NUM_OF_SAMPLES ]_vars

C13_Witness ==
    /\ pc = "sn_check"
    /\ evt = "signal"
    /\ startedSampling
    /\ ldmaCh = "xfer"
    /\ powerPin
    /\ volt_buf > 0

\* C14: start_next() arms the converter and the transfer engine before it
\* enables the periodic timer, and no timer pulse occurs while the transfer
\* engine is not armed.
C14_ArmedBeforeTimer ==
    [][ /\ (pc = "sn_letimer" /\ pc' # pc) =>
              (iadcSingleEn /\ ldmaCh = "xfer")
        /\ (Len(fifo') > Len(fifo)) => ldmaCh = "xfer" ]_vars

\* C15: start_next() called in state Idle issues the begin-conversion
\* command, then enables the periodic timer, then arms the transfer engine
\* for NUM_OF_SAMPLES transfers, then raises the power output and schedules
\* the one-shot timer, and only then sets the state Active.
C15_StartOrder ==
    [][ /\ (pc = "sn_check" /\ pc' # pc /\ ~startedSampling) =>
              (pc' = "sn_iadc" /\ UNCHANGED <<hwVars, startedSampling>>)
        /\ (pc = "sn_iadc" /\ pc' # pc) =>
              /\ iadcSingleEn' /\ pc' = "sn_letimer"
              /\ UNCHANGED <<letimerEnabled, ldmaCh, powerPin, pwrTimer,
                             startedSampling>>
        /\ (pc = "sn_letimer" /\ pc' # pc) =>
              /\ letimerEnabled' /\ pc' = "sn_ldma"
              /\ UNCHANGED <<ldmaCh, powerPin, pwrTimer, startedSampling>>
        /\ (pc = "sn_ldma" /\ pc' # pc) =>
              /\ ldmaCh' = "xfer" /\ xferLeft' = NUM_OF_SAMPLES
              /\ pc' = "sn_pin"
              /\ UNCHANGED <<powerPin, pwrTimer, startedSampling>>
        /\ (pc = "sn_pin" /\ pc' # pc) =>
              /\ powerPin' /\ pc' = "sn_timer"
              /\ UNCHANGED <<pwrTimer, startedSampling>>
        /\ (pc = "sn_timer" /\ pc' # pc) =>
              /\ pc' = "sn_flag"
              /\ UNCHANGED <<powerPin, startedSampling>>
        /\ (pc = "sn_flag" /\ pc' # pc) =>
              (startedSampling' /\ pc' = "idle") ]_vars

\* Everything stop() switches off is off already.
StopQuiet ==
    /\ ~startedSampling
    /\ ~letimerEnabled
    /\ ~iadcSingleEn
    /\ ldmaCh = "disabled"

C18_PoweredWhileSampling ==
    [][ /\ (Len(fifo') > Len(fifo)) => powerPin
        /\ (ldmaIF /\ ~ldmaIF') => ~powerPin' ]_vars

\* C19: a completion interrupt that fires when stop() has already reset
\* the flag is not cancelled: the handler runs with the state Idle, raises
\* the completion signal, disables timer and converter again and leaves
\* the state Idle; and no statement of stop() clears a pending interrupt
\* or a raised signal.
C19_StopKeepsPendingIrq ==
    [][ /\ (ldmaIF /\ ~ldmaIF' /\ sessStopped) =>
              /\ (extSignals' % 2) = LE_MONITOR_SIGNAL
              /\ ~letimerEnabled' /\ ~iadcSingleEn'
              /\ ~startedSampling'
              /\ pc' = pc
        /\ (pc \in StopPcs /\ pc' # pc) => UNCHANGED <<ldmaIF, extSignals>> ]_vars

C19_Witness ==
    /\ sessStopped
    /\ sessSignals = 1
    /\ extSignals = LE_MONITOR_SIGNAL
    /\ pc = "st_ldma"
    /\ ~startedSampling
    /\ ~letimerEnabled

\* C20: the transfer engine moves NUM_OF_SAMPLES words per arming, raises
\* the completion interrupt with the last of them, and then neither moves
\* a word nor raises the interrupt until start_next() arms it again.
C20_SingleShot ==
    [][ (Len(fifo') < Len(fifo)) =>
          /\ ldmaCh = "xfer"
          /\ xferDone < NUM_OF_SAMPLES
          /\ (ldmaIF' # ldmaIF) <=> (xferDone' = NUM_OF_SAMPLES) ]_vars

StartPcs == {"sn_check", "sn_iadc", "sn_letimer", "sn_ldma", "sn_pin",
             "sn_timer", "sn_flag"}

\* C21: whenever neither start_next() nor stop() nor the interrupt handler
\* is in progress, the periodic timer is enabled exactly when the session
\* flag says Active.
C21_FlagAgreesWithTimer ==
    (pc \notin (StartPcs \cup StopPcs) /\ ~ldmaIF)
        => (letimerEnabled <=> startedSampling)

\* C22: once the application has called stop(), on a closed connection or
\* on notifications disabled, the state is Idle when stop() has returned
\* and stays Idle until a client enables notifications; handling a
\* completion signal raised earlier does not start a session.
C22_NoRestartAfterStop ==
    (appStopped /\ pc \notin StopPcs) => ~startedSampling

\* C23: with no stop(), every completion signal the application handles
\* is followed by another completion signal.
C23_Continuous == (pc = "sig_avg") ~> (extSignals # 0)

\* C24: for a buffer of 12-bit codes no step of get_average_mv() wraps:
\* each product raw * 3300 and every partial sum is what unbounded
\* arithmetic gives, a sum of n terms is at most n * 3300, which for the
\* header's NUM_OF_SAMPLES is below 2^32, and the result is in 0..3300 and
\* equals the untruncated quotient.
C24_NoOverflow ==
    /\ \A i \in BufIdx :
          /\ samplingBuffer[i] \in 0 .. 4095
          /\ Uint32(samplingBuffer[i] * FULL_SCALE_MV) = samplingBuffer[i] * 3300
          /\ convert_to_mv(samplingBuffer[i]) \in 0 .. 3300
    /\ \A n \in 0 .. NUM_OF_SAMPLES :
          /\ AvgLoop(samplingBuffer, n) = SumMv(samplingBuffer, n)
          /\ AvgLoop(samplingBuffer, n) <= n * 3300
    /\ (NUM_OF_SAMPLES_HEADER * 3300) \div UINT16 < UINT16
    /\ (pc = "sn_check") =>
          /\ volt_buf \in 0 .. 3300
          /\ volt_buf = SumMv(samplingBuffer, NUM_OF_SAMPLES) \div NUM_OF_SAMPLES

C24_Witness ==
    /\ pc = "sn_check"
    /\ \A i \in BufIdx : samplingBuffer[i] = 4095
    /\ volt_buf = 3300

=============================================================================
